---- MODULE Spec2Model ----
(***************************************************************************)
(* Model of gulpfile.js of tsutil: the memoizing accessor `val`, the env   *)
(* accessors, the task declarations and the task actions, run by the gulp  *)
(* 3.x task runner the file requires on line 1 (gulp.task(name, deps, fn), *)
(* gulp.seq).  JavaScript values are written as strings: "undefined",      *)
(* "null", "true", "false", "0", "" and plain strings such as "test".      *)
(***************************************************************************)
EXTENDS Naturals, Sequences, FiniteSets

VARIABLES
  \* one accessor made by val(fn), driven by an arbitrary constructor
  vScript,     \* what the 1st, 2nd, ... invocation of fn returns
  vValue,      \* `value` of the closure (line 41)
  vCalls,      \* how many times fn has been invoked
  vReturns,    \* what the accessor returned, call by call
  \* the process and its environment
  requested,   \* the task name given on the command line
  TRAVIS,      \* process.env.TRAVIS
  PAGES_URL,   \* process.env.PAGES_URL
  proc,        \* "loaded" | "running" | "exited"
  exitCode,    \* exit code of the process once proc = "exited"
  failed,      \* the runner has reported an error
  \* the task runner
  seq,         \* gulp.seq
  isRunning,   \* the runner still starts tasks
  status,      \* task -> "idle" | "running" | "done"
  runs,        \* task -> number of times its action was started
  errs,        \* tasks whose action reported a failure
  worked,      \* tasks whose declared action function was entered
  graph,       \* the declared tasks: task -> its prerequisites
  startErr,    \* why the runner refused to start: "none" or the error
  \* the env accessors
  cache,       \* accessor -> cached value
  calls,       \* accessor -> number of constructor invocations
  observed,    \* <<accessor, value>> pairs returned so far
  \* the file system
  build,       \* files in _build, as <<name, origin>>
  doc,         \* files in doc, as <<name, origin>>
  \* state of the running actions
  hasError,    \* `hasError` of the scripts action
  js,          \* compiler.js and its gulp.dest
  dts,         \* compiler.dts and its gulp.dest
  lint,        \* jshint/tslint: is the failing reporter installed
  specPhase,   \* "none" | "instrument" | "test" | "called"
  coverage,    \* what summarizeCoverage() returned
  specErr,     \* what the spec action passed to its callback
  formatter,   \* "none" | "globbing" | "processing" | "finished"
  violations,  \* the linters that have found a violation
  callbacks,   \* how many times the spec action has called its callback
  dtsBundle    \* "none" | "written": the bundle of the bundle action

valVars == <<vScript, vValue, vCalls, vReturns>>
procVars == <<requested, TRAVIS, PAGES_URL, proc, exitCode, failed>>
runVars == <<seq, isRunning, status, runs, errs, worked, graph, startErr>>
envVars == <<cache, calls, observed>>
fsVars == <<build, doc>>
actMore == <<violations, callbacks, dtsBundle>>
actVars ==
  <<hasError, js, dts, lint, specPhase, coverage, specErr, formatter, actMore>>
vars == <<valVars, procVars, runVars, envVars, fsVars, actVars>>

----------------------------------------------------------------------------
\* Bounds of the model

\* accessor calls made on the accessor under test
MaxAccessorCalls == 3
\* accessor values returned when the accessors are called in any order
MaxFirstCalls == 5
\* files the compiler emits on each of its two output streams
MaxFiles == 2

----------------------------------------------------------------------------
\* JavaScript values

Undefined == "undefined"
Null == "null"
JsBool(b) == IF b THEN "true" ELSE "false"
\* the values a constructor may return
Values == {Undefined, Null, "false", "0", "", "x"}
\* the falsy values other than undefined
Falsy == {Null, "false", "0", ""}

InSeq(x, s) == \E i \in 1..Len(s) : s[i] = x
Range(s) == {s[i] : i \in 1..Len(s)}

----------------------------------------------------------------------------
\* val (lines 40-48): one call of the accessor.  `value` is the closure's
\* slot, fnResult what fn() returns if it is invoked now.

ValFalsy(value, fnResult) ==
  IF value = Undefined \/ value \in Falsy
    THEN [value |-> fnResult, ret |-> fnResult, called |-> TRUE]
    ELSE [value |-> value, ret |-> value, called |-> FALSE]

Val(value, fnResult) ==
  IF value = Undefined
    THEN [value |-> fnResult, ret |-> fnResult, called |-> TRUE]
    ELSE [value |-> value, ret |-> value, called |-> FALSE]

----------------------------------------------------------------------------
\* The task declarations (lines 8-10, 145, 157, 167, 177, 185, 203, 213,
\* 223, 245, 279, 290): task name -> its prerequisites, in declaration order

tasksCleanNeedsScripts ==
  [t \in {"doc", "lint", "test", "bundle", "clean", "copy", "coverage",
          "format", "jshint", "pages", "scripts", "spec", "tslint",
          "typedoc"} |->
     CASE t = "doc" -> <<"pages">>
       [] t = "lint" -> <<"jshint", "tslint">>
       [] t = "test" -> <<"coverage", "lint">>
       [] t = "bundle" -> <<"copy">>
       [] t = "clean" -> <<"scripts">>
       [] t = "copy" -> <<"scripts">>
       [] t = "coverage" -> <<"spec">>
       [] t = "pages" -> <<"typedoc">>
       [] t = "scripts" -> <<"clean", "tslint">>
       [] t = "spec" -> <<"scripts">>
       [] t = "typedoc" -> <<"clean">>
       [] OTHER -> <<>>]

tasksLintForgetsTslint ==
  [t \in {"doc", "lint", "test", "bundle", "clean", "copy", "coverage",
          "format", "jshint", "pages", "scripts", "spec", "tslint",
          "typedoc"} |->
     CASE t = "doc" -> <<"pages">>
       [] t = "lint" -> <<"jshint">>
       [] t = "test" -> <<"coverage", "lint">>
       [] t = "bundle" -> <<"copy">>
       [] t = "copy" -> <<"scripts">>
       [] t = "coverage" -> <<"spec">>
       [] t = "pages" -> <<"typedoc">>
       [] t = "scripts" -> <<"clean", "tslint">>
       [] t = "spec" -> <<"scripts">>
       [] t = "typedoc" -> <<"clean">>
       [] OTHER -> <<>>]

tasks ==
  [t \in {"doc", "lint", "test", "bundle", "clean", "copy", "coverage",
          "format", "jshint", "pages", "scripts", "spec", "tslint",
          "typedoc"} |->
     CASE t = "doc" -> <<"pages">>
       [] t = "lint" -> <<"jshint", "tslint">>
       [] t = "test" -> <<"coverage", "lint">>
       [] t = "bundle" -> <<"copy">>
       [] t = "copy" -> <<"scripts">>
       [] t = "coverage" -> <<"spec">>
       [] t = "pages" -> <<"typedoc">>
       [] t = "scripts" -> <<"clean", "tslint">>
       [] t = "spec" -> <<"scripts">>
       [] t = "typedoc" -> <<"clean">>
       [] OTHER -> <<>>]

\* the names of the gulp.task calls, in the order of the file
declared ==
  <<"doc", "lint", "test", "bundle", "clean", "copy", "coverage", "format",
    "jshint", "pages", "scripts", "spec", "tslint", "typedoc">>

TaskNames ==
  {"doc", "lint", "test", "bundle", "clean", "copy", "coverage", "format",
   "jshint", "pages", "scripts", "spec", "tslint", "typedoc"}

\* doc, lint and test are declared without an action function
HasAction(t) == t \notin {"doc", "lint", "test"}

\* the actions that finish before their function returns: the three
\* without a function, and bundle, which takes no callback and returns nothing
SyncTasks == {"doc", "lint", "test", "bundle"}

\* a name that is not declared, as `gulp` without arguments asks for
Undeclared == "default"

----------------------------------------------------------------------------
\* The order gulp.seq gets for the requested names: the prerequisites of a
\* name first, every name once.  err is "none", "missingTask" or
\* "recursiveTasks".

RECURSIVE sequence(_, _, _, _, _)
sequence(deps, names, i, results, nest) ==
  IF i > Len(names) THEN [results |-> results, err |-> "none"]
  ELSE LET name == names[i] IN
    IF InSeq(name, results) THEN sequence(deps, names, i + 1, results, nest)
    ELSE IF name \notin DOMAIN deps
      THEN [results |-> results, err |-> "missingTask"]
    ELSE IF InSeq(name, nest)
      THEN [results |-> results, err |-> "recursiveTasks"]
    ELSE LET sub == IF Len(deps[name]) > 0
                      THEN sequence(deps, deps[name], 1, results,
                                    Append(nest, name))
                      ELSE [results |-> results, err |-> "none"]
         IN IF sub.err # "none" THEN sub
            ELSE sequence(deps, names, i + 1, Append(sub.results, name), nest)

\* the prerequisites of t, direct and indirect
RECURSIVE Prereqs(_)
Prereqs(t) ==
  Range(tasks[t]) \cup UNION {Prereqs(d) : d \in Range(tasks[t])}

----------------------------------------------------------------------------
\* The env accessors (lines 54-82).  S is a record of the program state;
\* an access returns the state after the access and the value.

\* and the globs accessors (lines 89-140), named "globs.build" and so on
Accessors ==
  {"isTest", "isTravis", "name", "pagesUrl", "project", "task",
   "globs.build", "globs.bundle", "globs.coverage", "globs.dist",
   "globs.doc", "globs.docs", "globs.dts", "globs.gulp", "globs.lib",
   "globs.scripts", "globs.src", "globs.test", "globs.tests", "globs.ts",
   "globs.types"}

\* the accessors the constructor of an accessor calls, in the order of the
\* calls
uses ==
  [a \in Accessors |->
     CASE a = "isTest" -> <<"task">>
       [] a = "globs.docs" -> <<"globs.doc">>
       [] a = "globs.dts" -> <<"globs.ts">>
       [] a = "globs.lib" -> <<"globs.src">>
       [] a = "globs.scripts" -> <<"globs.build", "globs.src">>
       [] a = "globs.tests" -> <<"globs.build", "globs.test">>
       [] a = "globs.ts" -> <<"globs.src", "globs.test">>
       [] a = "globs.types" -> <<"globs.build", "globs.src">>
       [] OTHER -> <<>>]

\* path.join of segments that need no normalisation
RECURSIVE pathJoin(_)
pathJoin(parts) ==
  IF Len(parts) = 1 THEN parts[1]
  ELSE parts[1] \o "/" \o pathJoin(Tail(parts))

globsTsSrcOnly(src, test) == pathJoin(<<src, "**", "*.ts">>)

\* the constructor of globs.ts (lines 133-136)
globsTs(src, test) ==
  pathJoin(<<"{" \o src \o "," \o test \o "}", "**", "*.ts">>)

\* an array of three strings (lines 109-113), written as one string
Array3(a, b, c) == "[" \o a \o ", " \o b \o ", " \o c \o "]"

envTaskFirst(s) == IF Len(s) = 0 THEN Undefined ELSE s[1]

\* env.task's constructor: gulp.seq[gulp.seq.length - 1]
envTask(s) == IF Len(s) = 0 THEN Undefined ELSE s[Len(s)]

\* what the constructor of an accessor returns: S is the state it runs in,
\* v the values returned by the accessors it calls, in the order of uses
result(S, name, v) ==
  CASE name = "isTest" -> JsBool(v[1] = "test")
    [] name = "isTravis" -> JsBool(TRAVIS # Undefined)
    [] name = "name" -> "tsutil"
    [] name = "pagesUrl" -> PAGES_URL
    [] name = "project" -> "[project]"
    [] name = "task" -> envTask(S.seq)
    [] name = "globs.build" -> "_build"
    [] name = "globs.bundle" -> "index.d.ts"
    [] name = "globs.coverage" -> pathJoin(<<"coverage", "**", "lcov.info">>)
    [] name = "globs.dist" -> "[cwd]"
    [] name = "globs.doc" -> "doc"
    [] name = "globs.docs" -> pathJoin(<<v[1], "**", "*">>)
    [] name = "globs.dts" ->
         Array3(v[1], "lib/**/*.d.ts", "typings/**/*.d.ts")
    [] name = "globs.gulp" -> "gulpfile.js"
    [] name = "globs.lib" -> pathJoin(<<v[1], "**", "*.ts">>)
    [] name = "globs.scripts" -> pathJoin(<<v[1], v[2], "**", "*.js">>)
    [] name = "globs.src" -> "src"
    [] name = "globs.test" -> "test"
    [] name = "globs.tests" -> pathJoin(<<v[1], v[2], "**", "*.js">>)
    [] name = "globs.ts" -> globsTs(v[1], v[2])
    [] name = "globs.types" -> pathJoin(<<v[1], v[2], "**", "*.d.ts">>)

RECURSIVE Access(_, _), Construct(_, _), AccessAll(_, _)
\* the accessor calls a constructor makes, one after the other
AccessAll(S, names) ==
  LET Both(a, r) == [S |-> r.S, values |-> <<a.value>> \o r.values]
      Then(a) == Both(a, AccessAll(a.S, Tail(names)))
  IN IF names = <<>> THEN [S |-> S, values |-> <<>>]
     ELSE Then(Access(S, Head(names)))

\* the function passed to val: it calls its accessors, then builds its value
Construct(S, name) ==
  LET Build(d) == [S |-> d.S, value |-> result(d.S, name, d.values)]
  IN Build(AccessAll(S, uses[name]))

\* an accessor returned by val, called
Access(S, name) ==
  LET Return(base, r) ==
        [S |-> [base EXCEPT !.cache[name] = r.value,
                            !.calls[name] = IF r.called THEN @ + 1 ELSE @,
                            !.observed = @ \cup {<<name, r.ret>>}],
         value |-> r.ret]
      Call(c, r) == Return(IF r.called THEN c.S ELSE S, r)
      With(c) == Call(c, Val(S.cache[name], c.value))
  IN With(Construct(S, name))

----------------------------------------------------------------------------
\* The task runner.  S holds the part of the state that starting and
\* finishing a task can change.

State ==
  [seq |-> seq, isRunning |-> isRunning, status |-> status, runs |-> runs,
   errs |-> errs, worked |-> worked, failed |-> failed,
   cache |-> cache, calls |-> calls, observed |-> observed,
   hasError |-> hasError, js |-> js, dts |-> dts, lint |-> lint,
   specPhase |-> specPhase, formatter |-> formatter,
   tasks |-> graph, startErr |-> startErr, violations |-> violations,
   callbacks |-> callbacks, dtsBundle |-> dtsBundle]

\* a compiler output stream piped to gulp.dest: files emitted by the source,
\* files written by gulp.dest, has the source ended, and how many files were
\* emitted after an error
NewStream == [emitted |-> 0, written |-> 0, ended |-> FALSE, late |-> 0]

\* the body of the action function of task t, up to its return
StartAction(S, t) ==
  LET Failing(a) == [a.S EXCEPT !.lint[t] = (a.value = "true")]
  IN
  CASE t = "jshint" -> Failing(Access(S, "isTest"))
    [] t = "tslint" -> Failing(Access(S, "isTest"))
    [] t = "scripts" ->
         [S EXCEPT !.hasError = FALSE, !.js = NewStream, !.dts = NewStream]
    [] t = "spec" ->
         [Access(S, "isTravis").S EXCEPT !.specPhase = "instrument"]
    [] t = "pages" -> Access(S, "pagesUrl").S
    [] t = "format" -> [S EXCEPT !.formatter = "globbing"]
    [] t = "bundle" -> [S EXCEPT !.dtsBundle = "written"]
    [] OTHER -> S

StopKeepsRunning(S, err) ==
  [S EXCEPT !.failed = @ \/ err]

\* stop(err): the runner starts nothing more; an error is remembered for
\* the exit code
Stop(S, err) ==
  [S EXCEPT !.isRunning = FALSE, !.failed = @ \/ err]

ReadyAlways(S, t) == TRUE

\* every prerequisite of t is done
ReadyToRunTask(S, t) ==
  \A i \in 1..Len(S.tasks[t]) : S.status[S.tasks[t][i]] = "done"

AllDone(S) == \A i \in 1..Len(S.seq) : S.status[S.seq[i]] = "done"

\* _runStep: start every task of seq that is neither done nor running and
\* whose prerequisites are done; a task that finishes synchronously reports
\* at once.  throws: the synchronous actions that throw.
RECURSIVE RunStep(_, _), RunLoop(_, _, _), RunTask(_, _, _),
          TaskDone(_, _, _, _)
TaskDone(S, t, err, throws) ==
  LET S1 == [S EXCEPT !.status[t] = "done",
                      !.errs = IF err THEN @ \cup {t} ELSE @]
  IN IF err THEN Stop(S1, TRUE) ELSE RunStep(S1, throws)

RunTask(S, t, throws) ==
  LET S1 == [S EXCEPT !.status[t] = "running",
                      !.runs[t] = @ + 1,
                      !.worked = IF HasAction(t) THEN @ \cup {t} ELSE @]
      Started(S2) ==
        IF t \in SyncTasks THEN TaskDone(S2, t, t \in throws, throws)
        ELSE S2
  IN Started(StartAction(S1, t))

RunLoop(S, i, throws) ==
  LET Go(S1) == IF ~S1.isRunning THEN S1 ELSE RunLoop(S1, i + 1, throws)
      Try(t) == Go(IF S.status[t] = "idle" /\ ReadyToRunTask(S, t)
                     THEN RunTask(S, t, throws) ELSE S)
  IN IF i > Len(S.seq) THEN S ELSE Try(S.seq[i])

RunStep(S, throws) ==
  LET Ran(S1) == IF ~S1.isRunning THEN S1
                 ELSE IF AllDone(S1) THEN Stop(S1, FALSE) ELSE S1
  IN IF ~S.isRunning THEN S ELSE Ran(RunLoop(S, 1, throws))

\* the variables take the values of S
Becomes(S) ==
  /\ seq' = S.seq /\ isRunning' = S.isRunning /\ status' = S.status
  /\ runs' = S.runs /\ errs' = S.errs /\ worked' = S.worked
  /\ failed' = S.failed
  /\ cache' = S.cache /\ calls' = S.calls /\ observed' = S.observed
  /\ hasError' = S.hasError /\ js' = S.js /\ dts' = S.dts /\ lint' = S.lint
  /\ specPhase' = S.specPhase /\ formatter' = S.formatter
  /\ graph' = S.tasks /\ startErr' = S.startErr
  /\ violations' = S.violations /\ callbacks' = S.callbacks
  /\ dtsBundle' = S.dtsBundle

\* what Becomes leaves alone
Rest == <<valVars, requested, TRAVIS, PAGES_URL>>

----------------------------------------------------------------------------
\* Files and coverage

\* gulp.dest writes file i of a kind, replacing a file of that name
Write(dir, kind, i) ==
  {f \in dir : ~(f[1] = kind /\ f[2] = i)} \cup {<<kind, i, "new">>}

\* del([globs.build(), globs.doc()], callback) (lines 158-161)
delKeepsBuild(tree) == [build |-> tree.build, doc |-> {}]

del(tree) == [build |-> {}, doc |-> {}]

\* what an earlier run may have left behind
InitialBuilds ==
  {{}, {<<"stale", 1, "old">>}, {<<"stale", 1, "old">>, <<"js", 1, "old">>}}
InitialDocs == {{}, {<<"html", 1, "old">>}}

\* the keys of the coverage summary, in the order Object.keys gives them
CoverageKeys == <<"lines", "statements", "functions", "branches">>
FullPct == 100
Summaries == [Range(CoverageKeys) -> {50, FullPct}]

incompleteAll(cov) == CoverageKeys

\* lines 264-266: the keys whose pct is not 100
incomplete(cov) == SelectSeq(CoverageKeys, LAMBDA key : cov[key] # FullPct)

\* lines 262-271: the argument the spec action gives its callback
NoCallback == [called |-> FALSE, isError |-> FALSE, names |-> <<>>]
errOrNull(cov) ==
  IF Len(incomplete(cov)) > 0
    THEN [called |-> TRUE, isError |-> TRUE, names |-> incomplete(cov)]
    ELSE [called |-> TRUE, isError |-> FALSE, names |-> <<>>]

\* the exit code of process.exit on line 235
CompileErrorExit == 8

----------------------------------------------------------------------------
\* The state after the gulpfile has been loaded

InitVal ==
  /\ vValue = Undefined
  /\ vCalls = 0
  /\ vReturns = <<>>

InitRun ==
  /\ TRAVIS \in {Undefined, "true"}
  /\ PAGES_URL \in {Undefined, "url"}
  /\ proc = "loaded"
  /\ exitCode = 0
  /\ failed = FALSE
  /\ seq = <<>>
  /\ isRunning = FALSE
  /\ status = [t \in TaskNames |-> "idle"]
  /\ runs = [t \in TaskNames |-> 0]
  /\ errs = {}
  /\ worked = {}
  /\ cache = [a \in Accessors |-> Undefined]
  /\ calls = [a \in Accessors |-> 0]
  /\ observed = {}
  /\ build \in InitialBuilds
  /\ doc \in InitialDocs
  /\ hasError = FALSE
  /\ js = NewStream
  /\ dts = NewStream
  /\ lint = [t \in {"jshint", "tslint"} |-> FALSE]
  /\ specPhase = "none"
  /\ coverage = [k \in Range(CoverageKeys) |-> FullPct]
  /\ specErr = NoCallback
  /\ formatter = "none"
  /\ startErr = "none"
  /\ violations = {}
  /\ callbacks = 0
  /\ dtsBundle = "none"

Init ==
  /\ InitVal
  /\ vScript = [i \in 1..MaxAccessorCalls |-> "x"]
  /\ graph = tasks
  /\ requested \in TaskNames \cup {Undeclared}
  /\ InitRun

----------------------------------------------------------------------------
\* The command line starts the requested task (gulp.start)

Start ==
  /\ proc = "loaded"
  /\ LET r == sequence(graph, <<requested>>, 1, <<>>, <<>>)
     IN /\ r.err = "none"
        /\ \E throws \in SUBSET {"bundle"} :
             Becomes(RunStep([State EXCEPT !.seq = r.results,
                                           !.isRunning = TRUE], throws))
  /\ proc' = "running"
  /\ UNCHANGED <<Rest, exitCode, build, doc, coverage, specErr>>

StartFailsRunsResolved ==
  /\ proc = "loaded"
  /\ LET r == sequence(graph, <<requested>>, 1, <<>>, <<>>)
     IN /\ r.err # "none"
        /\ \E throws \in SUBSET {"bundle"} :
             Becomes(RunStep([State EXCEPT !.startErr = r.err,
                                           !.seq = r.results,
                                           !.isRunning = TRUE], throws))
  /\ proc' = "running"
  /\ UNCHANGED <<Rest, exitCode, build, doc, coverage, specErr>>

StartFailsRecordsName ==
  /\ proc = "loaded"
  /\ LET r == sequence(graph, <<requested>>, 1, <<>>, <<>>)
     IN /\ r.err # "none"
        /\ Becomes(Stop([State EXCEPT !.startErr = r.err,
                                      !.seq = <<requested>>], TRUE))
  /\ proc' = "exited"
  /\ exitCode' = 1
  /\ UNCHANGED <<Rest, build, doc, coverage, specErr>>

\* the requested name is not declared, or its prerequisites form a cycle
StartFails ==
  /\ proc = "loaded"
  /\ LET r == sequence(graph, <<requested>>, 1, <<>>, <<>>)
     IN /\ r.err # "none"
        /\ Becomes(Stop([State EXCEPT !.startErr = r.err], TRUE))
  /\ proc' = "exited"
  /\ exitCode' = 1
  /\ UNCHANGED <<Rest, build, doc, coverage, specErr>>

\* the action of t reports completion, with or without an error
Finish(S, t, err) ==
  \E throws \in SUBSET {"bundle"} : Becomes(TaskDone(S, t, err, throws))

Running(t) == proc = "running" /\ status[t] = "running"

\* clean (lines 157-162): del calls back
CleanDone ==
  /\ Running("clean")
  /\ \E err \in BOOLEAN :
       /\ Finish(State, "clean", err)
       /\ IF err THEN UNCHANGED <<build, doc>>
          ELSE LET tree == del([build |-> build, doc |-> doc])
               IN build' = tree.build /\ doc' = tree.doc
  /\ UNCHANGED <<Rest, proc, exitCode, coverage, specErr>>

\* jshint (lines 203-208) and tslint (lines 279-285): the stream ends, or
\* the failing reporter reports a violation
lintFailsOnViolation(failing, violation) == violation

\* the stream of a linter fails when the failing reporter is installed
\* (line 207, line 283) and there is a violation
lintFails(failing, violation) == failing /\ violation

LintDone(t) ==
  /\ Running(t)
  /\ \E violation \in BOOLEAN :
       Finish([State EXCEPT !.violations = IF violation THEN @ \cup {t} ELSE @],
              t, lintFails(lint[t], violation))
  /\ UNCHANGED <<Rest, proc, exitCode, build, doc, coverage, specErr>>

\* copy (167-172), coverage (177-180), pages (213-218): the stream ends or
\* fails
StreamDone(t) ==
  /\ Running(t)
  /\ \E err \in BOOLEAN : Finish(State, t, err)
  /\ UNCHANGED <<Rest, proc, exitCode, build, doc, coverage, specErr>>

\* typedoc (lines 290-299) writes the documentation
TypedocDone ==
  /\ Running("typedoc")
  /\ \E err \in BOOLEAN :
       /\ Finish(State, "typedoc", err)
       /\ doc' = IF err THEN doc ELSE Write(doc, "html", 1)
  /\ UNCHANGED <<Rest, proc, exitCode, build, coverage, specErr>>

\* scripts (lines 223-240): the handlers on compiler.js, the two gulp.dest
\* streams and their merge

JsErrorFailsScripts ==
  /\ Running("scripts")
  /\ ~js.ended
  /\ Finish([State EXCEPT !.hasError = TRUE], "scripts", TRUE)
  /\ UNCHANGED <<Rest, proc, exitCode, build, doc, coverage, specErr>>

\* compiler.js emits 'error' (lines 230-232)
JsError ==
  /\ Running("scripts")
  /\ ~js.ended
  /\ hasError' = TRUE
  /\ UNCHANGED <<valVars, procVars, runVars, envVars, fsVars, js, dts, lint,
                 specPhase, coverage, specErr, formatter, actMore>>

\* compiler.js emits a file, which is piped to gulp.dest (line 238)
JsData ==
  /\ Running("scripts")
  /\ ~js.ended
  /\ js.emitted < MaxFiles
  /\ js' = [js EXCEPT !.emitted = @ + 1,
                      !.late = IF hasError THEN @ + 1 ELSE @]
  /\ UNCHANGED <<valVars, procVars, runVars, envVars, fsVars, hasError, dts,
                 lint, specPhase, coverage, specErr, formatter, actMore>>

\* gulp.dest writes a file of compiler.js into the build directory
JsWrite ==
  /\ Running("scripts")
  /\ js.written < js.emitted
  /\ build' = Write(build, "js", js.written + 1)
  /\ js' = [js EXCEPT !.written = @ + 1]
  /\ UNCHANGED <<valVars, procVars, runVars, envVars, doc, hasError, dts,
                 lint, specPhase, coverage, specErr, formatter, actMore>>

exitOnError(isTest, error) == error

\* the condition of line 234
exitOnTestError(isTest, error) == isTest = "true" /\ error

\* compiler.js emits 'end' (lines 233-237)
JsEnd ==
  /\ Running("scripts")
  /\ ~js.ended
  /\ LET a == Access(State, "isTest")
     IN /\ Becomes([a.S EXCEPT !.js.ended = TRUE])
        /\ IF exitOnTestError(a.value, hasError)
             THEN proc' = "exited" /\ exitCode' = CompileErrorExit
             ELSE UNCHANGED <<proc, exitCode>>
  /\ UNCHANGED <<Rest, build, doc, coverage, specErr>>

\* compiler.dts emits a file, which is piped to gulp.dest (lines 227-228)
DtsData ==
  /\ Running("scripts")
  /\ ~dts.ended
  /\ dts.emitted < MaxFiles
  /\ dts' = [dts EXCEPT !.emitted = @ + 1]
  /\ UNCHANGED <<valVars, procVars, runVars, envVars, fsVars, hasError, js,
                 lint, specPhase, coverage, specErr, formatter, actMore>>

DtsWrite ==
  /\ Running("scripts")
  /\ dts.written < dts.emitted
  /\ build' = Write(build, "dts", dts.written + 1)
  /\ dts' = [dts EXCEPT !.written = @ + 1]
  /\ UNCHANGED <<valVars, procVars, runVars, envVars, doc, hasError, js,
                 lint, specPhase, coverage, specErr, formatter, actMore>>

DtsEnd ==
  /\ Running("scripts")
  /\ ~dts.ended
  /\ dts' = [dts EXCEPT !.ended = TRUE]
  /\ UNCHANGED <<valVars, procVars, runVars, envVars, fsVars, hasError, js,
                 lint, specPhase, coverage, specErr, formatter, actMore>>

\* a gulp.dest stream has written everything its source emitted
Flushed(st) == st.ended /\ st.written = st.emitted

\* the merged stream of line 239 ends
ScriptsDone ==
  /\ Running("scripts")
  /\ Flushed(js) /\ Flushed(dts)
  /\ Finish(State, "scripts", FALSE)
  /\ UNCHANGED <<Rest, proc, exitCode, build, doc, coverage, specErr>>

\* spec (lines 245-274): the instrumenting stream emits 'finish' (line 255)
SpecInstrumentFinish ==
  /\ Running("spec")
  /\ specPhase = "instrument"
  /\ Becomes([Access(State, "isTravis").S EXCEPT !.specPhase = "test"])
  /\ UNCHANGED <<Rest, proc, exitCode, build, doc, coverage, specErr>>

\* the test stream emits 'end' (lines 261-272)
SpecTestEnd ==
  /\ Running("spec")
  /\ specPhase = "test"
  /\ \E cov \in Summaries :
       /\ coverage' = cov
       /\ specErr' = errOrNull(cov)
       /\ Finish([State EXCEPT !.specPhase = "called", !.callbacks = @ + 1],
                 "spec", errOrNull(cov).isError)
  /\ UNCHANGED <<Rest, proc, exitCode, build, doc>>

\* the instrumenting stream or the test stream emits 'error' (an
\* instrumentation error, a failing test): lines 250-260 attach no 'error'
\* handler, so the error is thrown as an uncaught exception, which ends the
\* process
SpecStreamError ==
  /\ Running("spec")
  /\ specPhase \in {"instrument", "test"}
  /\ specPhase' = "error"
  /\ proc' = "exited"
  /\ exitCode' = 1
  /\ UNCHANGED <<valVars, requested, TRAVIS, PAGES_URL, failed, runVars,
                 envVars, fsVars, hasError, js, dts, lint, coverage, specErr,
                 formatter, actMore>>

\* format (lines 185-198): glob calls back
FormatGlobDone ==
  /\ Running("format")
  /\ formatter = "globbing"
  /\ \E err \in BOOLEAN :
       Finish([State EXCEPT !.formatter =
                 IF err THEN "none" ELSE "processing"], "format", err)
  /\ UNCHANGED <<Rest, proc, exitCode, build, doc, coverage, specErr>>

\* the formatter started on line 190 finishes
FormatterFinished ==
  /\ proc = "running"
  /\ formatter = "processing"
  /\ formatter' = "finished"
  /\ UNCHANGED <<valVars, procVars, runVars, envVars, fsVars, hasError, js,
                 dts, lint, specPhase, coverage, specErr, actMore>>

\* nothing is left to do: the process exits, with 1 after a reported error
ProcessExit ==
  /\ proc = "running"
  /\ \A t \in TaskNames : status[t] # "running"
  /\ formatter # "processing"
  /\ proc' = "exited"
  /\ exitCode' = IF failed THEN 1 ELSE 0
  /\ UNCHANGED <<valVars, requested, TRAVIS, PAGES_URL, failed, runVars,
                 envVars, fsVars, actVars>>

Next ==
  \/ Start
  \/ StartFails
  \/ CleanDone
  \/ LintDone("jshint")
  \/ LintDone("tslint")
  \/ StreamDone("copy")
  \/ StreamDone("coverage")
  \/ StreamDone("pages")
  \/ TypedocDone
  \/ JsError
  \/ JsData
  \/ JsWrite
  \/ JsEnd
  \/ DtsData
  \/ DtsWrite
  \/ DtsEnd
  \/ ScriptsDone
  \/ SpecInstrumentFinish
  \/ SpecTestEnd
  \/ SpecStreamError
  \/ FormatGlobDone
  \/ FormatterFinished
  \/ ProcessExit

Spec == Init /\ [][Next]_vars

----------------------------------------------------------------------------
\* An accessor made by val with an arbitrary constructor, called repeatedly

InitAccessor ==
  /\ InitVal
  /\ vScript \in [1..MaxAccessorCalls -> Values]
  /\ requested = "lint"
  /\ graph = tasks
  /\ InitRun

\* one call of the accessor (lines 42-47)
CallAccessor ==
  /\ Len(vReturns) < MaxAccessorCalls
  /\ LET r == Val(vValue, vScript[vCalls + 1])
     IN /\ vValue' = r.value
        /\ vCalls' = IF r.called THEN vCalls + 1 ELSE vCalls
        /\ vReturns' = Append(vReturns, r.ret)
  /\ UNCHANGED <<vScript, procVars, runVars, envVars, fsVars, actVars>>

NextAccessor == CallAccessor

SpecAccessor == InitAccessor /\ [][NextAccessor]_vars

----------------------------------------------------------------------------
\* A run on a task graph that differs from the declared one by one more
\* prerequisite, which may close a cycle

\* the tasks reachable from the set T along prerequisite edges, T included
RECURSIVE ReachFrom(_, _)
ReachFrom(g, T) ==
  LET N == T \cup UNION {Range(g[t]) : t \in T \cap DOMAIN g}
  IN IF N = T THEN T ELSE ReachFrom(g, N)

\* some task reachable from r is one of its own prerequisites
CycleReachable(g, r) ==
  \E t \in ReachFrom(g, {r}) \cap DOMAIN g : t \in ReachFrom(g, Range(g[t]))

\* the declared graph with one prerequisite given to a task that is
\* declared without any (clean, format, jshint, tslint)
Graphs ==
  {[tasks EXCEPT ![a] = <<b>>] :
     a \in {t \in TaskNames : tasks[t] = <<>> /\ HasAction(t)},
     b \in TaskNames}

InitGraph ==
  /\ InitVal
  /\ vScript = [i \in 1..MaxAccessorCalls |-> "x"]
  /\ requested \in TaskNames
  /\ graph \in Graphs
  /\ InitRun
  /\ TRAVIS = Undefined
  /\ PAGES_URL = Undefined
  /\ build = {}
  /\ doc = {}

SpecGraph == InitGraph /\ [][Next]_vars

----------------------------------------------------------------------------
\* A run during which the accessors of env and globs are called in any order

InitGlobs ==
  /\ InitVal
  /\ vScript = [i \in 1..MaxAccessorCalls |-> "x"]
  /\ requested \in {"clean", "test"}
  /\ graph = tasks
  /\ InitRun
  /\ build = {}
  /\ doc = {}

\* some action calls some accessor
CallAccessors ==
  /\ proc = "running"
  /\ Cardinality(observed) < MaxFirstCalls
  /\ \E a \in Accessors :
       /\ calls[a] < MaxAccessorCalls
       /\ Becomes(Access(State, a).S)
  /\ UNCHANGED <<Rest, proc, exitCode, build, doc, coverage, specErr>>

NextGlobs ==
  \/ Start
  \/ CallAccessors

SpecGlobs == InitGlobs /\ [][NextGlobs]_vars

----------------------------------------------------------------------------
\* Properties

\* the runner has finished the whole of seq without an error
RunSucceeded ==
  /\ requested \in TaskNames
  /\ proc # "loaded"
  /\ ~isRunning
  /\ ~failed

\* the requested task and its prerequisites
Closure == Prereqs(requested) \cup {requested}

\* C1 (as claimed): whatever the constructor returns, once the accessor has
\* been called the constructor has run exactly once and every call has
\* returned the same value.
C1_RunsOnceWhateverReturned ==
  Len(vReturns) >= 1 =>
    /\ vCalls = 1
    /\ \A i \in 1..Len(vReturns) : vReturns[i] = vReturns[1]

\* C2: no action is started twice; when an action has been started every
\* prerequisite of its task, direct or indirect, has completed without an
\* error; and when the run has succeeded the action of every prerequisite of
\* the requested task has been executed exactly once.
C2_PrereqsOnceAndFirst ==
  /\ \A t \in TaskNames : runs[t] <= 1
  /\ \A t \in TaskNames :
       status[t] # "idle" =>
         \A d \in Prereqs(t) : status[d] = "done" /\ d \notin errs
  /\ RunSucceeded =>
       \A d \in Prereqs(requested) : runs[d] = 1 /\ status[d] = "done"

\* a successful run of test, where tslint is reached along two paths
C2_Witness ==
  /\ RunSucceeded
  /\ requested = "test"
  /\ runs["tslint"] = 1 /\ runs["clean"] = 1

\* C3: once an action has reported a failure, and in the step in which a
\* running action reports one, no action goes from not started to started;
\* the failure is remembered, the runner has stopped, and the process exits
\* with a code other than 0.
C3_NoStartAfterFailure ==
  /\ [][(errs # {} \/ \E t \in errs' : status[t] = "running") =>
          \A t \in TaskNames : status[t] = "idle" => status'[t] = "idle"]_vars
  /\ [](errs # {} =>
          /\ failed
          /\ ~isRunning
          /\ (proc = "exited" => exitCode # 0))

\* spec has called back with an error, coverage was never started, and the
\* process has exited with 1
C3_Witness ==
  /\ errs = {"spec"}
  /\ specErr.isError
  /\ status["coverage"] = "idle"
  /\ requested = "test"
  /\ proc = "exited" /\ exitCode = 1

\* C4 (as claimed): at most one action is in progress.
C4_OneActionAtATime ==
  Cardinality({t \in TaskNames : status[t] = "running"}) <= 1

\* C4 (amended): two tasks of which one is a prerequisite of the other,
\* directly or indirectly, never have their actions in progress at the same
\* time.
C4_DependentNeverOverlap ==
  \A a \in TaskNames : \A b \in TaskNames :
    (status[a] = "running" /\ status[b] = "running") => a \notin Prereqs(b)

\* clean and tslint, the two prerequisites of scripts, are both in progress
C4_Witness ==
  /\ status["clean"] = "running"
  /\ status["tslint"] = "running"
  /\ status["scripts"] = "idle"

\* C5: when an action has been started gulp.seq ends with the requested
\* name, gulp.seq does not change once it is set, every evaluation of
\* env.task() has returned the requested name and every evaluation of
\* env.isTest() has returned true exactly if the requested name is test.
C5_RequestedNameFixed ==
  /\ []((\E t \in TaskNames : runs[t] > 0) =>
          /\ seq # <<>>
          /\ seq[Len(seq)] = requested)
  /\ [][seq # <<>> => seq' = seq]_vars
  /\ [](\A o \in observed :
          /\ o[1] = "task" => o[2] = requested
          /\ o[1] = "isTest" => o[2] = JsBool(requested = "test"))

\* in a run of test, env.isTest() has been evaluated by jshint, by tslint
\* and by the end handler of scripts, and its constructor has run once
C5_Witness ==
  /\ requested = "test"
  /\ status["jshint"] # "idle"
  /\ status["tslint"] # "idle"
  /\ js.ended
  /\ calls["isTest"] = 1
  /\ <<"isTest", "true">> \in observed
  /\ <<"task", "test">> \in observed

\* C6: only tasks of the closure of the requested name are started; doc,
\* lint and test enter no action function; a run that succeeds has started
\* every task of the closure once, so that lint enters exactly the actions
\* jshint and tslint, doc exactly clean, typedoc and pages, and test exactly
\* clean, tslint, scripts, spec, coverage and jshint.
C6_ExactlyTheClosure ==
  requested \in TaskNames =>
    /\ \A t \in TaskNames : runs[t] > 0 => t \in Closure
    /\ worked \cap {"doc", "lint", "test"} = {}
    /\ worked \subseteq Closure
    /\ RunSucceeded =>
         /\ {t \in TaskNames : runs[t] = 1} = Closure
         /\ requested = "lint" => worked = {"jshint", "tslint"}
         /\ requested = "doc" => worked = {"clean", "typedoc", "pages"}
         /\ requested = "test" =>
              worked = {"clean", "tslint", "scripts", "spec", "coverage",
                        "jshint"}

\* a successful run of lint
C6_Witness ==
  /\ RunSucceeded
  /\ requested = "lint"
  /\ runs["lint"] = 1
  /\ proc = "exited" /\ exitCode = 0

\* C7: when the first invocation of the constructor returns null, false, 0
\* or the empty string, the constructor has run once however often the
\* accessor was called, the slot holds that value and every call returned it.
C7_FalsyValueIsCached ==
  (vScript[1] \in Falsy /\ Len(vReturns) >= 1) =>
    /\ vCalls = 1
    /\ vValue = vScript[1]
    /\ \A i \in 1..Len(vReturns) : vReturns[i] = vScript[1]

\* the accessor was called twice on a constructor that returns false first
\* and would return something else next
C7_Witness ==
  /\ vScript[1] = "false"
  /\ vScript[2] = "x"
  /\ Len(vReturns) >= 2

\* C8: the process has exited with 8 exactly if test was requested and
\* compiler.js has ended after an error; while compiler.js has not ended
\* the scripts action has not exited the process, error or not.
C8_ExitOnTestCompileError ==
  /\ (proc = "exited" /\ exitCode = CompileErrorExit) <=>
       (requested = "test" /\ hasError /\ js.ended)
  /\ (status["scripts"] = "running" /\ ~js.ended) => proc = "running"
  /\ requested # "test" => exitCode # CompileErrorExit

\* exit with 8 after a file that was emitted after the error has been
\* written
C8_Witness ==
  /\ proc = "exited" /\ exitCode = CompileErrorExit
  /\ js.late >= 1
  /\ js.written = js.emitted

\* C9: when the spec action has called back, it called back with an error
\* exactly if some key of the summary has a pct other than 100, the error
\* names each such key once and no other key, and the runner has recorded a
\* failure of spec exactly in that case.
C9_IncompleteCoverageFails ==
  specErr.called =>
    LET low == {k \in Range(CoverageKeys) : coverage[k] # FullPct}
    IN /\ specErr.isError <=> low # {}
       /\ Range(specErr.names) = low
       /\ Len(specErr.names) = Cardinality(low)
       /\ ("spec" \in errs) <=> low # {}

\* a failure that names lines and not branches
C9_Witness ==
  /\ specErr.called /\ specErr.isError
  /\ coverage["lines"] # FullPct
  /\ coverage["branches"] = FullPct
  /\ "spec" \in errs

\* C10: when scripts has been started clean has completed without an error;
\* after clean has completed and before scripts or typedoc has been started
\* both directories are empty; when scripts has completed every file of the
\* build directory was written by this run; deleting twice gives what
\* deleting once gives, and deleting in a clean tree changes nothing.
C10_CleanBeforeScripts ==
  LET tree == [build |-> build, doc |-> doc]
  IN /\ runs["scripts"] > 0 =>
          status["clean"] = "done" /\ "clean" \notin errs
     /\ (status["clean"] = "done" /\ "clean" \notin errs
           /\ runs["scripts"] = 0 /\ runs["typedoc"] = 0) =>
          build = {} /\ doc = {}
     /\ status["scripts"] = "done" => \A f \in build : f[3] = "new"
     /\ del(del(tree)) = del(tree)
     /\ (build = {} /\ doc = {}) => del(tree) = tree

\* scripts has completed and the build directory holds what it wrote
C10_Witness ==
  /\ status["scripts"] = "done"
  /\ <<"js", 1, "new">> \in build
  /\ <<"dts", 1, "new">> \in build


\* C11 (as claimed): an action that has reported completion has no external
\* operation in progress: scripts both gulp.dest streams finished, spec its
\* callback called after the test stream ended, format the formatter not
\* processing any more, bundle the bundle written.
C11_NothingInProgressWhenDone ==
  /\ status["scripts"] = "done" => Flushed(js) /\ Flushed(dts)
  /\ status["spec"] = "done" => specPhase = "called"
  /\ status["format"] = "done" => formatter # "processing"
  /\ (status["bundle"] = "done" /\ "bundle" \notin errs) =>
       dtsBundle = "written"

\* C14 (as claimed): after a compiler error no task that depends on scripts
\* is started, the scripts action does not complete successfully and the
\* process does not exit with 0.
C14_CompileErrorAbortsRun ==
  hasError =>
    /\ \A t \in {"copy", "bundle", "spec", "coverage"} : runs[t] = 0
    /\ status["scripts"] = "done" => "scripts" \in errs
    /\ proc = "exited" => exitCode # 0

\* C14 (amended): when test was requested, after a compiler error no task
\* that depends on scripts is started and the process does not exit with 0;
\* under any other requested name scripts completes without a failure after
\* a compiler error, and the task that depends on it (copy for copy and
\* bundle, spec for spec and coverage) has then been started.
C14_CompileErrorAbortsTestOnly ==
  hasError =>
    /\ requested = "test" =>
         /\ \A t \in {"copy", "bundle", "spec", "coverage"} : runs[t] = 0
         /\ proc = "exited" => exitCode # 0
    /\ (requested # "test" /\ status["scripts"] = "done") =>
         /\ "scripts" \notin errs
         /\ requested \in {"copy", "bundle"} => runs["copy"] = 1
         /\ requested \in {"spec", "coverage"} => runs["spec"] = 1

\* bundle was requested, the compiler reported an error, and the run went
\* on through copy and bundle and succeeded
C14_Witness ==
  /\ requested = "bundle"
  /\ hasError
  /\ runs["copy"] = 1 /\ runs["bundle"] = 1
  /\ RunSucceeded
  /\ proc = "exited" /\ exitCode = 0

\* C15: a linter that has completed has failed exactly if it found a
\* violation and test was requested; when lint was requested and both
\* linters have completed, lint has been started and nothing has failed, and
\* when a task that needs scripts was requested under another name than
\* test, scripts has been started once clean and tslint have completed and
\* clean has not failed.
C15_LintFailsOnlyUnderTest ==
  /\ \A t \in {"jshint", "tslint"} :
       status[t] = "done" =>
         (t \in errs <=> (t \in violations /\ requested = "test"))
  /\ (requested = "lint" /\ status["jshint"] = "done"
        /\ status["tslint"] = "done") =>
       runs["lint"] = 1 /\ errs = {}
  /\ (requested \in {"scripts", "copy", "bundle", "spec", "coverage"}
        /\ status["tslint"] = "done" /\ status["clean"] = "done"
        /\ "clean" \notin errs) =>
       runs["scripts"] = 1

\* lint was requested, both linters found violations, and lint succeeded
C15_Witness ==
  /\ requested = "lint"
  /\ violations = {"jshint", "tslint"}
  /\ RunSucceeded
  /\ runs["lint"] = 1

\* C16 (as claimed): the callback of the spec action is never called twice,
\* and when the process has ended after the spec action was started the
\* callback has been called once.
C16_CallbackExactlyOnce ==
  /\ callbacks <= 1
  /\ (proc = "exited" /\ runs["spec"] = 1) => callbacks = 1


\* C12: when a cycle of the task graph is reachable from the requested
\* name, the start fails with the recursion error, the process has exited
\* with a code other than 0, gulp.seq is not set and no task has been
\* started, the prerequisites outside the cycle included; without such a
\* cycle no recursion error is reported.
C12_CycleRunsNothing ==
  proc # "loaded" =>
    IF CycleReachable(graph, requested)
      THEN /\ startErr = "recursiveTasks"
           /\ proc = "exited" /\ exitCode # 0
           /\ seq = <<>>
           /\ worked = {}
           /\ \A t \in TaskNames : runs[t] = 0 /\ status[t] = "idle"
      ELSE startErr = "none"

\* test was requested and tslint was given lint as a prerequisite: clean
\* and jshint, outside the cycle, had been resolved when the cycle was found
C12_Witness ==
  /\ requested = "test"
  /\ graph["tslint"] = <<"lint">>
  /\ startErr = "recursiveTasks"
  /\ proc = "exited"
  /\ runs["clean"] = 0 /\ runs["jshint"] = 0

\* C13: when the requested name is not declared the start fails with the
\* missing-task error and the process exits with 1; no step of such a run
\* changes gulp.seq, starts a task, computes or caches an accessor value or
\* changes a directory; a declared name is never reported missing.
C13_UndeclaredNoEffect ==
  /\ []((proc # "loaded" /\ requested \notin TaskNames) =>
          /\ startErr = "missingTask"
          /\ proc = "exited" /\ exitCode = 1
          /\ seq = <<>>
          /\ worked = {}
          /\ \A t \in TaskNames : runs[t] = 0
          /\ \A a \in Accessors : cache[a] = Undefined /\ calls[a] = 0)
  /\ [][requested \notin TaskNames =>
          UNCHANGED <<seq, status, runs, worked, envVars, fsVars>>]_vars
  /\ [](requested \in TaskNames => startErr # "missingTask")

\* the undeclared name was requested and the process has exited
C13_Witness ==
  /\ requested = Undeclared
  /\ startErr = "missingTask"
  /\ proc = "exited"


\* C17: no name is declared twice and the declared names are the tasks;
\* the names listed as prerequisites are pages, jshint, tslint, coverage,
\* lint, copy, scripts, spec, typedoc and clean, all of them declared; no
\* task is reachable from itself; for every declared name the order is
\* resolved without an error and holds each task reachable from the name
\* once; and gulp.seq of a started run is such an order.
C17_GraphClosedAcyclic ==
  /\ \A i \in 1..Len(declared) : \A j \in 1..Len(declared) :
       declared[i] = declared[j] => i = j
  /\ Range(declared) = DOMAIN tasks
  /\ UNION {Range(tasks[t]) : t \in DOMAIN tasks} =
       {"pages", "jshint", "tslint", "coverage", "lint", "copy", "scripts",
        "spec", "typedoc", "clean"}
  /\ \A t \in DOMAIN tasks : Range(tasks[t]) \subseteq DOMAIN tasks
  /\ \A t \in DOMAIN tasks : t \notin ReachFrom(tasks, Range(tasks[t]))
  /\ \A t \in DOMAIN tasks :
       LET r == sequence(tasks, <<t>>, 1, <<>>, <<>>)
       IN /\ r.err = "none"
          /\ Range(r.results) = ReachFrom(tasks, {t})
          /\ Len(r.results) = Cardinality(ReachFrom(tasks, {t}))
  /\ (proc # "loaded" /\ requested \in TaskNames) =>
       /\ startErr = "none"
       /\ Range(seq) = ReachFrom(graph, {requested})
       /\ Len(seq) = Cardinality(Range(seq))

\* the run of test has resolved its eight tasks
C17_Witness ==
  /\ requested = "test"
  /\ proc = "running"
  /\ Len(seq) = 8
  /\ seq[1] = "clean" /\ seq[8] = "test"


\* what each accessor is to return in a run
expected(a) ==
  CASE a = "isTest" -> JsBool(requested = "test")
    [] a = "isTravis" -> JsBool(TRAVIS # Undefined)
    [] a = "name" -> "tsutil"
    [] a = "pagesUrl" -> PAGES_URL
    [] a = "project" -> "[project]"
    [] a = "task" -> requested
    [] a = "globs.build" -> "_build"
    [] a = "globs.bundle" -> "index.d.ts"
    [] a = "globs.coverage" -> "coverage/**/lcov.info"
    [] a = "globs.dist" -> "[cwd]"
    [] a = "globs.doc" -> "doc"
    [] a = "globs.docs" -> "doc/**/*"
    [] a = "globs.dts" ->
         "[{src,test}/**/*.ts, lib/**/*.d.ts, typings/**/*.d.ts]"
    [] a = "globs.gulp" -> "gulpfile.js"
    [] a = "globs.lib" -> "src/**/*.ts"
    [] a = "globs.scripts" -> "_build/src/**/*.js"
    [] a = "globs.src" -> "src"
    [] a = "globs.test" -> "test"
    [] a = "globs.tests" -> "_build/test/**/*.js"
    [] a = "globs.ts" -> "{src,test}/**/*.ts"
    [] a = "globs.types" -> "_build/src/**/*.d.ts"

\* C18: the accessors that call accessors are docs, dts, lib, scripts,
\* tests, ts, types and isTest; no accessor is reached from the accessors it
\* calls; an accessor whose constructor has run has run the constructors of
\* all accessors it reaches; and whatever the order of the calls, every call
\* of an accessor has returned the one value the accessor has in this run,
\* and the cache holds no other.
C18_AccessorsOrderIndependent ==
  /\ {a \in Accessors : uses[a] # <<>>} =
       {"globs.docs", "globs.dts", "globs.lib", "globs.scripts",
        "globs.tests", "globs.ts", "globs.types", "isTest"}
  /\ \A a \in Accessors : a \notin ReachFrom(uses, Range(uses[a]))
  /\ \A a \in Accessors :
       calls[a] >= 1 => \A b \in ReachFrom(uses, {a}) : calls[b] >= 1
  /\ \A o \in observed : o[2] = expected(o[1])
  /\ \A a \in Accessors : cache[a] \in {Undefined, expected(a)}

\* dts was called when ts had been called before it, and after them
\* scripts: dts returned its value with ts, src and test already cached
C18_Witness ==
  /\ <<"globs.dts", "[{src,test}/**/*.ts, lib/**/*.d.ts, typings/**/*.d.ts]">>
       \in observed
  /\ calls["globs.ts"] = 1
  /\ calls["globs.src"] = 1
  /\ <<"globs.scripts", "_build/src/**/*.js">> \in observed
  /\ proc = "running"

====
